---- MODULE Spec2Model ----
(***************************************************************************)
(* CyberMem (src/cybermem.py): a Streamlit script.  Every user interaction *)
(* runs the script once from top to bottom; one action below is one such   *)
(* run, with the widget values of that run as its inputs.                  *)
(*                                                                         *)
(* Python strings are sequences of one-character strings, so that split,   *)
(* strip, lower, replace, startswith, re.sub and sorted are computed as    *)
(* the code computes them.                                                 *)
(***************************************************************************)
EXTENDS Integers, Sequences, FiniteSets, TLC

(***************************************************************************)
(* Strings                                                                 *)
(***************************************************************************)

\* Printable ASCII in code-point order, 32 (space) to 126 (~); code 96, which
\* a TLA+ string cannot hold, is a placeholder that is no character.
Ascii ==
  <<" ","!","\"","#","$","%","&","'","(",")","*","+",",","-",".","/",
    "0","1","2","3","4","5","6","7","8","9",":",";","<","=",">","?","@",
    "A","B","C","D","E","F","G","H","I","J","K","L","M","N","O","P","Q",
    "R","S","T","U","V","W","X","Y","Z","[","\\","]","^","_","(96)",
    "a","b","c","d","e","f","g","h","i","j","k","l","m","n","o","p","q",
    "r","s","t","u","v","w","x","y","z","{","|","}","~">>

\* ord(c) for the characters of the model: printable ASCII and "\n".
OrdTable ==
  [c \in {Ascii[i] : i \in 1..Len(Ascii)} |->
      31 + (CHOOSE i \in 1..Len(Ascii) : Ascii[i] = c)] @@ ("\n" :> 10)

Ord(c) == OrdTable[c]

\* str.lower() on one character: A-Z (65..90) map to a-z, the rest is kept.
LowerChar(c) ==
  IF Ord(c) >= 65 /\ Ord(c) <= 90 THEN Ascii[Ord(c) + 32 - 31] ELSE c

\* s.lower()
Lower(s) == [i \in 1..Len(s) |-> LowerChar(s[i])]

\* s.startswith(p)
StartsWith(s, p) == Len(s) >= Len(p) /\ SubSeq(s, 1, Len(p)) = p

\* q in s (substring test)
Contains(s, q) ==
  \E i \in 0..(Len(s) - Len(q)) : SubSeq(s, i + 1, i + Len(q)) = q

\* The characters str.strip() removes, among those of the model.
Whitespace == {" ", "\n"}

RECURSIVE LStrip(_)
LStrip(s) ==
  IF s # <<>> /\ Head(s) \in Whitespace THEN LStrip(Tail(s)) ELSE s

RECURSIVE RStrip(_)
RStrip(s) ==
  IF s # <<>> /\ s[Len(s)] \in Whitespace
    THEN RStrip(SubSeq(s, 1, Len(s) - 1))
    ELSE s

\* s.strip()
Strip(s) == RStrip(LStrip(s))

\* s.split(c) for a one-character separator c: never empty, "" gives [""].
RECURSIVE Split(_, _)
Split(s, c) ==
  IF \E i \in 1..Len(s) : s[i] = c
    THEN LET i == CHOOSE k \in 1..Len(s) :
                    s[k] = c /\ \A j \in 1..(k - 1) : s[j] # c
         IN  <<SubSeq(s, 1, i - 1)>> \o Split(SubSeq(s, i + 1, Len(s)), c)
    ELSE <<s>>

\* s.replace(old, new): every non-overlapping occurrence, left to right.
RECURSIVE Replace(_, _, _)
Replace(s, old, new) ==
  IF s = <<>> THEN <<>>
  ELSE IF StartsWith(s, old)
    THEN new \o Replace(SubSeq(s, Len(old) + 1, Len(s)), old, new)
    ELSE <<Head(s)>> \o Replace(Tail(s), old, new)

\* Python's order on strings: by code point, a proper prefix first.
RECURSIVE StrLess(_, _)
StrLess(a, b) ==
  IF b = <<>> THEN FALSE
  ELSE IF a = <<>> THEN TRUE
  ELSE IF Head(a) # Head(b) THEN Ord(Head(a)) < Ord(Head(b))
  ELSE StrLess(Tail(a), Tail(b))

\* sorted(keys, reverse=True): the order a slip in the sort would give.
RECURSIVE sorted_descending(_)
sorted_descending(keys) ==
  IF keys = {} THEN <<>>
  ELSE LET m == CHOOSE x \in keys : \A y \in keys \ {x} : StrLess(y, x)
       IN  <<m>> \o sorted_descending(keys \ {m})

\* sorted(keys)
RECURSIVE sorted(_)
sorted(keys) ==
  IF keys = {} THEN <<>>
  ELSE LET m == CHOOSE x \in keys : \A y \in keys \ {x} : StrLess(x, y)
       IN  <<m>> \o sorted(keys \ {m})

(***************************************************************************)
(* Files and constants of the script                                       *)
(***************************************************************************)

IMAGE_FOLDER == <<"i","m","a","g","e","s">>                    \* "images"

\* "[Image stored at": the prefix the script tests with startswith.
SentinelPrefix == <<"[","I","m","a","g","e"," ","s","t","o","r","e","d"," ","a","t">>

\* "Image stored at ": what the path extraction removes with replace.
SentinelWords == <<"I","m","a","g","e"," ","s","t","o","r","e","d"," ","a","t"," ">>

\* The characters of the class [\\/:*?"<>|] of re.sub.
UnsafeChars == {"\\", "/", ":", "*", "?", "\"", "<", ">", "|"}

\* re.sub(r'[\\/:*?"<>|]', '_', topic)
Sanitize(topic) ==
  [i \in 1..Len(topic) |-> IF topic[i] \in UnsafeChars THEN "_" ELSE topic[i]]

\* os.path.join(IMAGE_FOLDER, f"{safe_topic}.png"), safe_topic "unnamed" when empty.
ImagePath(topic) ==
  LET safe_topic == IF Sanitize(topic) = <<>>
                      THEN <<"u","n","n","a","m","e","d">>
                      ELSE Sanitize(topic)
  IN  IMAGE_FOLDER \o <<"/">> \o safe_topic \o <<".","p","n","g">>

\* f"[Image stored at {image_path}]"
Sentinel(image_path) == SentinelPrefix \o <<" ">> \o image_path \o <<"]">>

\* step.startswith("[Image stored at")
IsImageStep(step) == StartsWith(step, SentinelPrefix)

\* step.split("[")[1].split("]")[0].replace("Image stored at ", "")
ExtractPath(step) ==
  Replace(Split(Split(step, "[")[2], "]")[1], SentinelWords, <<>>)

\* A mapping with no key: {} in Python.
EmptyDict == [k \in {} |-> <<>>]

\* d[k] = v on a dict
DictSet(d, k, v) == [x \in DOMAIN d \cup {k} |-> IF x = k THEN v ELSE d[x]]

\* del d[k]
DictDel(d, k) == [x \in DOMAIN d \ {k} |-> d[x]]

\* A file is absent, holds text json.load rejects, or holds a JSON object.
Absent == [kind |-> "absent"]
Malformed == [kind |-> "malformed"]
JsonFile(obj) == [kind |-> "json", obj |-> obj]

\* hashlib.sha256(password.encode()).hexdigest(): a digest that determines
\* the password (SHA-256 taken as collision free).
hash_password(password) == <<"sha256">> \o password

(***************************************************************************)
(* Inputs of the runs: what the user types, selects and uploads            *)
(***************************************************************************)

Usernames == { <<"a","l">> }                                   \* "al"
Passwords == { <<"p","w">>, <<"x">> }                          \* "pw", "x"

\* " ", "a/b", "a_b"
TopicNames == { <<" ">>, <<"a","/","b">>, <<"a","_","b">> }

\* "Open login page\nClick submit"
TextLogin ==
  <<"O","p","e","n"," ","l","o","g","i","n"," ","p","a","g","e","\n",
    "C","l","i","c","k"," ","s","u","b","m","i","t">>

\* "Unrelated"
TextUnrelated == <<"U","n","r","e","l","a","t","e","d">>

\* "[Image stored at images/a_b.png]\nnote": text that starts like a sentinel.
TextTypedSentinel ==
  <<"[","I","m","a","g","e"," ","s","t","o","r","e","d"," ","a","t"," ",
    "i","m","a","g","e","s","/","a","_","b",".","p","n","g","]",
    "\n","n","o","t","e">>

\* " Click LOGIN \n\nnote "
TextEdited ==
  <<" ","C","l","i","c","k"," ","L","O","G","I","N"," ","\n","\n",
    "n","o","t","e"," ">>

AddTexts == { TextLogin, TextTypedSentinel }
EditTexts == { TextEdited }
Transcripts == { TextUnrelated }
Queries == { <<"l","o","g","i","n">>, <<"U","N">>, <<"E">> }   \* "login", "UN", "E"
Uploads == { "img1", "img2" }

(***************************************************************************)
(* State                                                                   *)
(***************************************************************************)

VARIABLES
  SPEECH_ENABLED,  \* whether speech_recognition could be imported
  session_state,   \* st.session_state: logged_in, user, voice_text
  users_file,      \* users.json
  data_file,       \* cybermem.json
  images,          \* the files of the images folder: path -> content
  pc,              \* "idle", or "rerun" between st.rerun() and the next run
  view             \* what the last run rendered: its page, feedback and output

vars == <<SPEECH_ENABLED, session_state, users_file, data_file, images, pc, view>>

\* json.load of a file the script wrote gives back the object written;
\* an absent or malformed file gives {}.
Load(file) == IF file.kind = "json" THEN file.obj ELSE EmptyDict

load_users == Load(users_file)
load_data == Load(data_file)

\* json.dump(users, f): the file is rewritten whole.
save_users(users) == users_file' = JsonFile(users)
save_data(data) == data_file' = JsonFile(data)

\* What a run rendered: the page (op), the feedback call that ended it
\* (st.success, st.warning, st.error, st.info, or none), the input it names
\* and the output it lists.
View(op, kind, arg, out) == [op |-> op, kind |-> kind, arg |-> arg, out |-> out]

\* The state after the script's first run: no session key but logged_in,
\* the login page on screen, no file written yet.
Init ==
  /\ SPEECH_ENABLED \in BOOLEAN
  /\ session_state = [logged_in |-> FALSE]
  /\ users_file \in {Absent, Malformed}
  /\ data_file \in {Absent, Malformed}
  /\ images = EmptyDict
  /\ pc = "idle"
  /\ view = View("LoginPage", "none", <<>>, <<>>)

(***************************************************************************)
(* The login page: the runs that end at st.stop()                          *)
(***************************************************************************)

\* Login that looks the username up and never compares the hash.
LoginClick_AnyPassword(username, password) ==
  /\ pc = "idle"
  /\ ~session_state.logged_in
  /\ LET users == load_users IN
       IF username \in DOMAIN users
         THEN /\ session_state' =
                   DictSet(DictSet(session_state, "logged_in", TRUE), "user", username)
              /\ view' = View("Login", "success", <<username, password>>, <<>>)
              /\ pc' = "rerun"
         ELSE /\ view' = View("Login", "error", <<username, password>>, <<>>)
              /\ UNCHANGED <<session_state, pc>>
  /\ UNCHANGED <<SPEECH_ENABLED, users_file, data_file, images>>

LoginClick(username, password) ==
  /\ pc = "idle"
  /\ ~session_state.logged_in
  /\ LET users == load_users IN
       IF username \in DOMAIN users /\ users[username] = hash_password(password)
         THEN /\ session_state' =
                   DictSet(DictSet(session_state, "logged_in", TRUE), "user", username)
              /\ view' = View("Login", "success", <<username, password>>, <<>>)
              /\ pc' = "rerun"
         ELSE /\ view' = View("Login", "error", <<username, password>>, <<>>)
              /\ UNCHANGED <<session_state, pc>>
  /\ UNCHANGED <<SPEECH_ENABLED, users_file, data_file, images>>

\* Register without the test for an existing username.
RegisterClick_Overwrite(new_user, new_pass) ==
  /\ pc = "idle"
  /\ ~session_state.logged_in
  /\ save_users(DictSet(load_users, new_user, hash_password(new_pass)))
  /\ view' = View("Register", "success", <<new_user, new_pass>>,
                  DictSet(load_users, new_user, hash_password(new_pass)))
  /\ UNCHANGED <<SPEECH_ENABLED, session_state, data_file, images, pc>>

RegisterClick(new_user, new_pass) ==
  /\ pc = "idle"
  /\ ~session_state.logged_in
  /\ LET users == load_users IN
       IF new_user \in DOMAIN users
         THEN /\ view' = View("Register", "warning", <<new_user, new_pass>>, users)
              /\ UNCHANGED users_file
         ELSE /\ save_users(DictSet(users, new_user, hash_password(new_pass)))
              /\ view' = View("Register", "success", <<new_user, new_pass>>,
                              DictSet(users, new_user, hash_password(new_pass)))
  /\ UNCHANGED <<SPEECH_ENABLED, session_state, data_file, images, pc>>

\* The run st.rerun() starts after a login: the main app with its default
\* page, Add Topic in Text mode, and no button clicked.
Rerun ==
  /\ pc = "rerun"
  /\ session_state.logged_in
  /\ pc' = "idle"
  /\ view' = View("AddTopic", "none", <<>>, <<>>)
  /\ UNCHANGED <<SPEECH_ENABLED, session_state, users_file, data_file, images>>

(***************************************************************************)
(* The main app: the runs after login                                      *)
(***************************************************************************)

\* img.save(image_path): the upload re-encoded as a PNG file at that path.
SaveImage(image_file, image_path) ==
  images' = DictSet(images, image_path, [format |-> "PNG", pixels |-> image_file])

\* The Save Topic button of the Add Topic page, clicked, with the steps and
\* the image path the input mode produced in the same run.
SaveTopic(topic, steps, image_path) ==
  LET data == load_data IN
    IF Strip(topic) = <<>>
      THEN /\ view' = View("AddTopic", "error", topic, <<>>)
           /\ UNCHANGED data_file
    ELSE IF topic \in DOMAIN data
      THEN /\ view' = View("AddTopic", "warning", topic, <<>>)
           /\ UNCHANGED data_file
    ELSE /\ LET entry == IF image_path # <<>>
                           THEN <<Sentinel(image_path)>>
                           ELSE IF steps # <<>> THEN steps ELSE <<>>
            IN  save_data(DictSet(data, topic, entry))
         /\ view' = View("AddTopic", "success", topic, <<>>)

\* Add Topic, input type Text, Save Topic clicked.
AddTopicText(topic, text) ==
  /\ pc = "idle"
  /\ session_state.logged_in
  /\ SaveTopic(topic, Split(text, "\n"), <<>>)
  /\ UNCHANGED <<SPEECH_ENABLED, session_state, users_file, images, pc>>

\* Add Topic, input type Image: with a file in the uploader the run saves
\* the image before it looks at the Save Topic button, clicked or not.
AddTopicImage(topic, image_file, clicked) ==
  /\ pc = "idle"
  /\ session_state.logged_in
  /\ IF image_file # "None"
       THEN SaveImage(image_file, ImagePath(topic))
       ELSE UNCHANGED images
  /\ IF clicked
       THEN SaveTopic(topic, <<>>,
                      IF image_file # "None" THEN ImagePath(topic) ELSE <<>>)
       ELSE /\ view' = View("AddTopic", "none", topic, <<>>)
            /\ UNCHANGED data_file
  /\ UNCHANGED <<SPEECH_ENABLED, session_state, users_file, pc>>

\* Add Topic, input type Voice, Start Voice Recording clicked: record_voice()
\* gives the transcript, or "" after it reported a failure.
AddTopicVoiceRecord(voice_text) ==
  /\ pc = "idle"
  /\ session_state.logged_in
  /\ SPEECH_ENABLED
  /\ session_state' = DictSet(session_state, "voice_text", voice_text)
  /\ view' = View("Record", IF voice_text = <<>> THEN "error" ELSE "success",
                  <<>>, <<>>)
  /\ UNCHANGED <<SPEECH_ENABLED, users_file, data_file, images, pc>>

\* Add Topic, input type Voice, Save Topic clicked.
AddTopicVoice(topic) ==
  /\ pc = "idle"
  /\ session_state.logged_in
  /\ SPEECH_ENABLED
  /\ LET voice_result == IF "voice_text" \in DOMAIN session_state
                           THEN session_state.voice_text
                           ELSE <<>>
         steps == IF voice_result # <<>>
                    THEN Split(Strip(voice_result), "\n")
                    ELSE <<>>
     IN  SaveTopic(topic, steps, <<>>)
  /\ UNCHANGED <<SPEECH_ENABLED, session_state, users_file, images, pc>>

\* What Recall Topic shows for one step at position i.
RenderStep(i, step) ==
  IF IsImageStep(step)
    THEN IF ExtractPath(step) \in DOMAIN images
           THEN [kind |-> "image", path |-> ExtractPath(step)]
           ELSE [kind |-> "error"]
    ELSE [kind |-> "text", n |-> i, step |-> step]

RecallTopic ==
  /\ pc = "idle"
  /\ session_state.logged_in
  /\ LET data == load_data IN
       IF DOMAIN data = {}
         THEN view' = View("Recall", "info", <<>>, <<>>)
         ELSE \E topic \in DOMAIN data :
                view' = View("Recall", "steps", topic,
                             [i \in 1..Len(data[topic]) |-> RenderStep(i, data[topic][i])])
  /\ UNCHANGED <<SPEECH_ENABLED, session_state, users_file, data_file, images, pc>>

\* The lines kept as typed: no strip, no filter.
StripNonBlank_Verbatim(lines) == lines

\* [line.strip() for line in lines if line.strip() != ""]
RECURSIVE StripNonBlank(_)
StripNonBlank(lines) ==
  IF lines = <<>> THEN <<>>
  ELSE IF Strip(Head(lines)) # <<>>
    THEN <<Strip(Head(lines))>> \o StripNonBlank(Tail(lines))
    ELSE StripNonBlank(Tail(lines))

\* Edit Topic with a topic selected: the warning for an image topic, else
\* Save Changes clicked with new_text in the text area.
EditTopic(topic, new_text) ==
  /\ pc = "idle"
  /\ session_state.logged_in
  /\ LET data == load_data IN
       /\ topic \in DOMAIN data
       /\ LET steps == data[topic] IN
            IF steps # <<>> /\ IsImageStep(steps[1])
              THEN /\ view' = View("Edit", "warning", topic, <<>>)
                   /\ UNCHANGED data_file
              ELSE /\ save_data(DictSet(data, topic, StripNonBlank(Split(new_text, "\n"))))
                   /\ view' = View("Edit", "success", topic, <<>>)
  /\ UNCHANGED <<SPEECH_ENABLED, session_state, users_file, images, pc>>

\* Delete Topic with a topic selected and Confirm Delete clicked.
DeleteTopic(topic) ==
  /\ pc = "idle"
  /\ session_state.logged_in
  /\ LET data == load_data IN
       /\ topic \in DOMAIN data
       /\ IF data[topic] # <<>> /\ IsImageStep(data[topic][1])
            THEN LET img_path == ExtractPath(data[topic][1]) IN
                   IF img_path \in DOMAIN images
                     THEN images' = DictDel(images, img_path)
                     ELSE UNCHANGED images
            ELSE UNCHANGED images
       /\ save_data(DictDel(data, topic))
       /\ view' = View("Delete", "success", topic, <<>>)
  /\ UNCHANGED <<SPEECH_ENABLED, session_state, users_file, pc>>

\* Edit Topic and Delete Topic with nothing stored: the info line only.
NoTopics(menu) ==
  /\ pc = "idle"
  /\ session_state.logged_in
  /\ DOMAIN load_data = {}
  /\ view' = View(menu, "info", <<>>, <<>>)
  /\ UNCHANGED <<SPEECH_ENABLED, session_state, users_file, data_file, images, pc>>

\* List Topics reached without the login gate.
ListTopics_NoGate ==
  /\ pc = "idle"
  /\ LET data == load_data IN
       view' = IF DOMAIN data = {}
                 THEN View("List", "info", <<>>, <<>>)
                 ELSE View("List", "list", <<>>, sorted(DOMAIN data))
  /\ UNCHANGED <<SPEECH_ENABLED, session_state, users_file, data_file, images, pc>>

ListTopics ==
  /\ pc = "idle"
  /\ session_state.logged_in
  /\ LET data == load_data IN
       view' = IF DOMAIN data = {}
                 THEN View("List", "info", <<>>, <<>>)
                 ELSE View("List", "list", <<>>, sorted(DOMAIN data))
  /\ UNCHANGED <<SPEECH_ENABLED, session_state, users_file, data_file, images, pc>>

\* The match without lower(): a case-sensitive search.
RECURSIVE Matches_CaseSensitive(_, _)
Matches_CaseSensitive(steps, query) ==
  IF steps = <<>> THEN <<>>
  ELSE IF Contains(Head(steps), query) /\ ~IsImageStep(Head(steps))
    THEN <<Head(steps)>> \o Matches_CaseSensitive(Tail(steps), query)
    ELSE Matches_CaseSensitive(Tail(steps), query)

\* [s for s in steps if query.lower() in s.lower()
\*    and not s.startswith("[Image stored at")]
RECURSIVE Matches(_, _)
Matches(steps, query) ==
  IF steps = <<>> THEN <<>>
  ELSE IF Contains(Lower(Head(steps)), Lower(query)) /\ ~IsImageStep(Head(steps))
    THEN <<Head(steps)>> \o Matches(Tail(steps), query)
    ELSE Matches(Tail(steps), query)

\* The results dict of Search Steps: the topics with a match, each with its matches.
SearchResults(data, query) ==
  [topic \in {t \in DOMAIN data : Matches(data[t], query) # <<>>} |->
     Matches(data[topic], query)]

SearchSteps(query) ==
  /\ pc = "idle"
  /\ session_state.logged_in
  /\ LET results == SearchResults(load_data, query) IN
       view' = IF query = <<>>
                 THEN View("Search", "none", query, <<>>)
                 ELSE IF DOMAIN results # {}
                   THEN View("Search", "results", query, results)
                   ELSE View("Search", "warning", query, results)
  /\ UNCHANGED <<SPEECH_ENABLED, session_state, users_file, data_file, images, pc>>

Next ==
  \/ \E username \in Usernames, password \in Passwords : LoginClick(username, password)
  \/ \E new_user \in Usernames, new_pass \in Passwords : RegisterClick(new_user, new_pass)
  \/ Rerun
  \/ \E topic \in TopicNames, text \in AddTexts : AddTopicText(topic, text)
  \/ \E topic \in TopicNames, image_file \in Uploads \cup {"None"}, clicked \in BOOLEAN :
       AddTopicImage(topic, image_file, clicked)
  \/ \E voice_text \in Transcripts \cup {<<>>} : AddTopicVoiceRecord(voice_text)
  \/ \E topic \in TopicNames : AddTopicVoice(topic)
  \/ RecallTopic
  \/ \E topic \in TopicNames, new_text \in EditTexts : EditTopic(topic, new_text)
  \/ \E topic \in TopicNames : DeleteTopic(topic)
  \/ \E menu \in {"Edit", "Delete"} : NoTopics(menu)
  \/ ListTopics
  \/ \E query \in Queries : SearchSteps(query)

Spec == Init /\ [][Next]_vars

(***************************************************************************)
(* Properties: the credential store and the login gate                     *)
(***************************************************************************)

\* C1: a Login(u, q) run right after an accepted Register(u, p) (the page
\* still shows the registration's success, for u with password p) sets
\* logged_in exactly when q = p; for q # p logged_in stays false.
C1_LoginAfterRegister ==
  [][\A u \in Usernames, q \in Passwords :
       ( /\ view.op = "Register"
         /\ view.kind = "success"
         /\ view.arg[1] = u
         /\ LoginClick(u, q) )
       => /\ (q = view.arg[2]) => session_state'.logged_in
          /\ (q # view.arg[2]) => ~session_state'.logged_in]_vars

\* A login that succeeded for the user the credential file holds, with the
\* password whose hash the registration stored.
C1_Witness ==
  /\ view.op = "Login"
  /\ view.kind = "success"
  /\ session_state.logged_in
  /\ view.arg[1] \in DOMAIN load_users
  /\ load_users[view.arg[1]] = hash_password(view.arg[2])

\* C2: Register(u, p) with u already a key of the credential mapping
\* leaves users.json and the mapping in memory as they were, whatever p
\* is, and ends in the warning.
C2_RegisterExistingUnchanged ==
  [][\A u \in Usernames, p \in Passwords :
       (u \in DOMAIN load_users /\ RegisterClick(u, p))
       => /\ users_file' = users_file
          /\ view'.op = "Register"
          /\ view'.kind = "warning"
          /\ view'.out = load_users]_vars

\* A registration refused for an existing user whose stored hash is that of
\* another password than the one supplied.
C2_Witness ==
  /\ view.op = "Register"
  /\ view.kind = "warning"
  /\ view.arg[1] \in DOMAIN load_users
  /\ load_users[view.arg[1]] # hash_password(view.arg[2])

\* The pages a run shows when it ends at st.stop().
LoginPages == {"LoginPage", "Login", "Register"}

\* C10: while logged_in is false a run changes neither cybermem.json nor
\* the image folder and shows only the login page; logged_in becomes true
\* only by a Login whose username is in the credential mapping with the
\* hash of the supplied password; a Register never changes logged_in.
C10_LoginGate ==
  [][ /\ ~session_state.logged_in
         => /\ data_file' = data_file
            /\ images' = images
            /\ view'.op \in LoginPages
      /\ (~session_state.logged_in /\ session_state'.logged_in)
         => \E u \in Usernames, p \in Passwords :
              /\ LoginClick(u, p)
              /\ u \in DOMAIN load_users
              /\ load_users[u] = hash_password(p)
      /\ \A u \in Usernames, p \in Passwords :
           RegisterClick(u, p) => session_state' = session_state ]_vars

\* A topic was stored by the user who logged in, and a refused login before
\* it would have left the session logged out.
C10_Witness ==
  /\ session_state.logged_in
  /\ session_state.user \in DOMAIN load_users
  /\ view.op = "AddTopic"
  /\ view.kind = "success"
  /\ view.arg \in DOMAIN load_data

(***************************************************************************)
(* Properties: the topic store and the image folder                        *)
(***************************************************************************)

\* An entry that is exactly one element, an image sentinel.
IsSentinelEntry(entry) == Len(entry) = 1 /\ IsImageStep(entry[1])

\* An entry none of whose elements is an image sentinel (possibly empty).
IsPureText(entry) == \A i \in 1..Len(entry) : ~IsImageStep(entry[i])

\* The topics stored as an image: exactly one sentinel.
ImageTopics == {t \in DOMAIN load_data : IsSentinelEntry(load_data[t])}

\* A run of the Add Topic page with Save Topic clicked, in any input mode.
SaveTopicStep ==
  \/ \E topic \in TopicNames, text \in AddTexts : AddTopicText(topic, text)
  \/ \E topic \in TopicNames, image_file \in Uploads \cup {"None"} :
       AddTopicImage(topic, image_file, TRUE)
  \/ \E topic \in TopicNames : AddTopicVoice(topic)

\* C3: an Add Topic that is rejected (blank name: the error; existing name:
\* the warning) changes nothing, in any input mode: cybermem.json and the
\* files of the image folder, with their contents, are as before the run.
C3_RejectedAddChangesNothing ==
  [][(SaveTopicStep /\ view'.kind \in {"error", "warning"})
       => (data_file' = data_file /\ images' = images)]_vars

\* a is before b in lexicographic order by code point.
LexBefore(a, b) ==
  \E k \in 1..Len(b) :
    /\ k <= Len(a) + 1
    /\ \A j \in 1..(k - 1) : a[j] = b[j]
    /\ (k = Len(a) + 1 \/ Ord(a[k]) < Ord(b[k]))

\* listing holds exactly the keys, each once, in lexicographic order.
IsListingOf(listing, keys) ==
  /\ {listing[i] : i \in 1..Len(listing)} = keys
  /\ Len(listing) = Cardinality(keys)
  /\ \A i \in 1..(Len(listing) - 1) : LexBefore(listing[i], listing[i + 1])

\* C4: List Topics shows exactly the keys of the store, each once, in
\* lexicographic order; run right after an accepted add of A the listing
\* contains A, and run right after a delete of A it does not.
C4_ListAfterAddDelete ==
  [][ListTopics
       => /\ IsListingOf(view'.out, DOMAIN load_data)
          /\ (view.op = "AddTopic" /\ view.kind = "success")
               => \E i \in 1..Len(view'.out) : view'.out[i] = view.arg
          /\ (view.op = "Delete" /\ view.kind = "success")
               => \A i \in 1..Len(view'.out) : view'.out[i] # view.arg]_vars

\* A listing of two topics, "a/b" before "a_b".
C4_Witness ==
  /\ view.op = "List"
  /\ view.out = << <<"a","/","b">>, <<"a","_","b">> >>
  /\ DOMAIN load_data = { <<"a","/","b">>, <<"a","_","b">> }

\* A line with a character that is not whitespace.
NonBlank(line) == \E j \in 1..Len(line) : line[j] \notin Whitespace

\* A non-blank line from its first to its last non-whitespace character.
Trimmed(line) ==
  LET first == CHOOSE j \in 1..Len(line) :
                 line[j] \notin Whitespace /\ \A k \in 1..(j - 1) : line[k] \in Whitespace
      last == CHOOSE j \in 1..Len(line) :
                line[j] \notin Whitespace /\ \A k \in (j + 1)..Len(line) : line[k] \in Whitespace
  IN  SubSeq(line, first, last)

\* The non-blank lines of text, each trimmed, in their order.
TrimmedNonBlankLines(text) ==
  LET kept == SelectSeq(Split(text, "\n"), NonBlank)
  IN  [i \in 1..Len(kept) |-> Trimmed(kept[i])]

\* C5: Edit on a topic stored as one image sentinel is rejected with the
\* warning and leaves cybermem.json as it was; Edit on a pure-text topic
\* with text t stores the non-blank lines of t, trimmed and in order, for
\* that topic and leaves every other entry as it was.
C5_Edit ==
  [][\A topic \in TopicNames, t \in EditTexts :
       (view'.op = "Edit" /\ EditTopic(topic, t))
       => /\ IsSentinelEntry(load_data[topic])
               => (data_file' = data_file /\ view'.kind = "warning")
          /\ IsPureText(load_data[topic])
               => /\ view'.kind = "success"
                  /\ DOMAIN Load(data_file') = DOMAIN load_data
                  /\ Load(data_file')[topic] = TrimmedNonBlankLines(t)
                  /\ \A other \in DOMAIN load_data \ {topic} :
                       Load(data_file')[other] = load_data[other]]_vars

\* An edit replaced a topic's steps by "Click LOGIN", "note", the two
\* non-blank lines of the text, while another topic is stored beside it.
C5_Witness ==
  /\ view.op = "Edit"
  /\ view.kind = "success"
  /\ Cardinality(DOMAIN load_data) = 2
  /\ load_data[view.arg] =
       << <<"C","l","i","c","k"," ","L","O","G","I","N">>, <<"n","o","t","e">> >>

\* C6: Delete removes the topic's entry; for an image topic it also removes
\* the topic's image file, and for any other topic, whatever its steps say,
\* the set of files in the image folder is as before.
C6_DeleteFiles ==
  [][\A topic \in TopicNames :
       DeleteTopic(topic)
       => /\ topic \notin DOMAIN Load(data_file')
          /\ IF IsSentinelEntry(load_data[topic])
               THEN ImagePath(topic) \notin DOMAIN images'
               ELSE DOMAIN images' = DOMAIN images]_vars

\* C7: every image topic's file exists, and no two image topics reference
\* the same path.
C7_ImageOwnedByOneTopic ==
  \A t1 \in ImageTopics :
    /\ ExtractPath(load_data[t1][1]) \in DOMAIN images
    /\ \A t2 \in ImageTopics \ {t1} :
         ExtractPath(load_data[t2][1]) # ExtractPath(load_data[t1][1])

\* C8: every entry of the store is pure text or exactly one image sentinel.
C8_TextOrOneSentinel ==
  \A t \in DOMAIN load_data :
    IsPureText(load_data[t]) \/ IsSentinelEntry(load_data[t])

\* The same letter, whatever the case.
SameIgnoringCase(a, b) ==
  \/ a = b
  \/ Ord(a) >= 65 /\ Ord(a) <= 90 /\ Ord(b) = Ord(a) + 32
  \/ Ord(b) >= 65 /\ Ord(b) <= 90 /\ Ord(a) = Ord(b) + 32

\* step is no image sentinel and holds query as a substring, case ignored.
Hit(step, query) ==
  /\ ~IsImageStep(step)
  /\ \E off \in 0..(Len(step) - Len(query)) :
       \A k \in 1..Len(query) : SameIgnoringCase(step[off + k], query[k])

\* C9: for a non-empty query, Search Steps shows the mapping whose keys
\* are exactly the topics with a step that is a hit, each with exactly its
\* hits in stored order; the store is left as it was.
C9_Search ==
  [][\A query \in Queries :
       (view'.op = "Search" /\ view'.arg = query /\ SearchSteps(query))
       => /\ DOMAIN view'.out =
               {t \in DOMAIN load_data :
                  \E i \in 1..Len(load_data[t]) : Hit(load_data[t][i], query)}
          /\ \A t \in DOMAIN view'.out :
               view'.out[t] = SelectSeq(load_data[t], LAMBDA s : Hit(s, query))
          /\ data_file' = data_file
          /\ images' = images]_vars

\* The example of the search: "login" over one topic with the steps
\* "Open login page", "Click submit" and one with "Unrelated".
C9_Witness ==
  /\ view.op = "Search"
  /\ view.arg = <<"l","o","g","i","n">>
  /\ load_data = DictSet(DictSet(EmptyDict, <<"a","/","b">>, Split(TextLogin, "\n")),
                         <<"a","_","b">>, <<TextUnrelated>>)
  /\ view.out = DictSet(EmptyDict, <<"a","/","b">>, << Split(TextLogin, "\n")[1] >>)

====
